---- MODULE Spec2Model ----
(***************************************************************************)
(* The draw transaction of the lottery backend, in its two endpoint        *)
(* variants:                                                               *)
(*   "index"   - src/index.ts: participant-aware, records every draw,      *)
(*               reads the eligible prizes with a plain SELECT;            *)
(*   "part000" - src/unnamed/part_000: no participant, no record, reads    *)
(*               the eligible prizes with SELECT ... FOR UPDATE.           *)
(*                                                                         *)
(* The store is MySQL/InnoDB behind mysql2's pool, modelled by what the    *)
(* handlers rely on: a plain SELECT is a consistent read of the            *)
(* transaction's snapshot (taken at its first read), a locking read and an *)
(* UPDATE read the latest committed row and hold an exclusive row lock     *)
(* until the transaction ends, writes are private until COMMIT, ROLLBACK   *)
(* discards them, and START TRANSACTION on a connection whose transaction  *)
(* is still open commits that transaction first.                           *)
(*                                                                         *)
(* A store call of the try block can reject: the statement has no effect   *)
(* and control goes to the catch block.  ROLLBACK rejects only when the    *)
(* connection is lost; the server then discards the open transaction.      *)
(***************************************************************************)
EXTENDS Integers, Sequences, FiniteSets, TLC

(***************************************************************************)
(* Bounds of the model.                                                    *)
(***************************************************************************)
NumDraws == 3        \* concurrent draw requests
PoolSize == 2        \* connections of the pool (connectionLimit, scaled down)
NumPrizes == 2       \* rows of the prizes table
MaxQty == 1          \* largest total_quantity of a prize
RandomScale == 2     \* Math.random() * range is sampled in steps of 1/RandomScale
MaxLen == 3          \* longest prize list handed to weightedRandom on its own
MaxWeight == 3       \* largest total_quantity in such a list

Draws == 1..NumDraws
Conns == 1..PoolSize
PrizeIds == 1..NumPrizes

IndexTs == "index"
Part000 == "part000"
Variants == {IndexTs, Part000}

NoName == "<missing>"
\* the request bodies (participantName), in a fixed order
Bodies == <<"ann", NoName>>
\* the participants table the model starts with: one row, of another name
Registered == {[id |-> 1, name |-> "bob", draw |-> 0]}

(***************************************************************************)
(* State.                                                                  *)
(***************************************************************************)
VARIABLES
  variant,        \* which of the two programs is running
  prizes,         \* committed prizes table: id -> row
  prizes0,        \* the prizes table at start (history)
  participants,   \* committed participants table: set of [id, name, draw]
  records,        \* committed lottery_records table: set of rows
  decLog,         \* committed decrements: set of [prize, draw] (history)
  nextPid,        \* AUTO_INCREMENT counter of participants
  connOwner,      \* pool: connection -> draw holding it, 0 when free
  tx,             \* connection -> "none" | "open" | "lost"
  snap,           \* connection -> snapshot of prizes of its transaction
  txw,            \* connection -> uncommitted writes of its transaction
  lockedBy,       \* prize id -> connection holding its row lock, 0 when free
  pc,             \* draw -> position in the handler
  conn,           \* draw -> its connection, 0 when none
  participantName,\* draw -> req.body.participantName
  participantId,  \* draw -> participantId
  selectedPrize,  \* draw -> id of selectedPrize, 0 before the selection
  resp,           \* draw -> response sent
  sent,           \* draw -> number of responses sent
  released,       \* draw -> number of connection.release() calls
  threw,          \* draw -> the handler's promise rejected
  commits,        \* draws whose connection.commit() resolved (history)
  wrPhase,        \* weightedRandom on its own: "in" | "out"
  wrVariant,      \*   the variant whose weightedRandom runs
  wrPrizes,       \*   its argument
  wrRange,        \*   the factor of Math.random()
  wrRandom,       \*   the random value drawn, times RandomScale
  wrResult        \*   the prize returned

dbVars == <<prizes, prizes0, participants, records, decLog, nextPid>>
connVars == <<connOwner, tx, snap, txw, lockedBy>>
drawVars == <<pc, conn, participantName, participantId, selectedPrize, resp,
              sent, released, threw, commits>>
wrVars == <<wrPhase, wrVariant, wrPrizes, wrRange, wrRandom, wrResult>>
vars == <<variant, dbVars, connVars, drawVars, wrVars>>

(***************************************************************************)
(* weightedRandom.                                                         *)
(***************************************************************************)
\* the field the variant uses as the weight of a prize
Weight(v, prize) ==
  IF v = IndexTs THEN prize.probability ELSE prize.total_quantity

RECURSIVE SumWeight(_, _)
SumWeight(v, list) ==
  IF list = <<>> THEN 0
  ELSE Weight(v, Head(list)) + SumWeight(v, Tail(list))

\* the factor Math.random() is multiplied by
RandomRange(v, list) ==
  IF v = IndexTs THEN 100 ELSE SumWeight(v, list)

\* the values of Math.random() * range on the grid, times RandomScale:
\* Math.random() is in [0, 1), and is 0 when the range is 0
RandomValues(range) ==
  IF range = 0 THEN {0} ELSE 0..(RandomScale * range - 1)

\* Walk with "random < 0" as the test of the loop
RECURSIVE WalkStrict(_, _, _, _)
WalkStrict(v, list, i, random) ==
  IF i > Len(list) THEN list[Len(list)]
  ELSE LET next == random - RandomScale * Weight(v, list[i])
       IN  IF next < 0 THEN list[i] ELSE WalkStrict(v, list, i + 1, next)

\* the for loop: random is the running value times RandomScale; when the list
\* is exhausted the last element is returned (undefined for an empty list)
RECURSIVE Walk(_, _, _, _)
Walk(v, list, i, random) ==
  IF i > Len(list) THEN list[Len(list)]
  ELSE LET next == random - RandomScale * Weight(v, list[i])
       IN  IF next <= 0 THEN list[i] ELSE Walk(v, list, i + 1, next)

weightedRandom(v, list, random) == Walk(v, list, 1, random)

(***************************************************************************)
(* The store.                                                              *)
(***************************************************************************)
NoWrites == [participants |-> {}, records |-> {}, decs |-> {}]
NoSnap == <<>>

\* probability column of the prizes the model starts with
ProbabilityOf(p) == IF p = 1 THEN 10 ELSE 90

\* SELECT * FROM prizes WHERE remaining_quantity > 0, in primary-key order
RECURSIVE EligibleFrom(_, _)
EligibleFrom(table, i) ==
  IF i > NumPrizes THEN <<>>
  ELSE (IF table[i].remaining_quantity > 0 THEN <<table[i]>> ELSE <<>>)
       \o EligibleFrom(table, i + 1)

Eligible(table) == EligibleFrom(table, 1)

EligibleIds(table) == {p \in PrizeIds : table[p].remaining_quantity > 0}

\* decrements of prize p among the uncommitted writes w
PendingDecs(w, p) == Cardinality({x \in w.decs : x.prize = p})

\* the tables after the writes w are committed
CommittedPrizes(w) ==
  [p \in PrizeIds |->
     [prizes[p] EXCEPT !.remaining_quantity = @ - PendingDecs(w, p)]]

\* COMMIT on connection c: its writes become the committed state
ApplyWrites(c) ==
  /\ prizes' = CommittedPrizes(txw[c])
  /\ participants' = participants \cup txw[c].participants
  /\ records' = records \cup txw[c].records
  /\ decLog' = decLog \cup txw[c].decs

\* the transaction of connection c ends: writes, snapshot and locks are gone
EndTx(c, state) ==
  /\ tx' = [tx EXCEPT ![c] = state]
  /\ txw' = [txw EXCEPT ![c] = NoWrites]
  /\ snap' = [snap EXCEPT ![c] = NoSnap]
  /\ lockedBy' = [p \in PrizeIds |-> IF lockedBy[p] = c THEN 0 ELSE lockedBy[p]]

\* DecrementIfPositive without "AND remaining_quantity > 0"
DecrementUnconditional(c, d, p) ==
  [txw[c] EXCEPT !.decs = @ \cup {[prize |-> p, draw |-> d]}]

\* UPDATE prizes SET remaining_quantity = remaining_quantity - 1
\*   WHERE id = p AND remaining_quantity > 0, by draw d on connection c:
\* the writes of the transaction afterwards
DecrementIfPositive(c, d, p) ==
  IF prizes[p].remaining_quantity - PendingDecs(txw[c], p) > 0
  THEN [txw[c] EXCEPT !.decs = @ \cup {[prize |-> p, draw |-> d]}]
  ELSE txw[c]

(***************************************************************************)
(* Initial state: the two programs, every stock level of every prize, and  *)
(* every request body; all draws are waiting for a connection.             *)
(***************************************************************************)
PrizeRows(p) ==
  {[id |-> p, total_quantity |-> t, remaining_quantity |-> r,
    probability |-> ProbabilityOf(p)] :
      t \in {MaxQty}, r \in 0..MaxQty}

\* the bodies of the draw requests of index.ts; the draws are interchangeable,
\* so one representative of each assignment is kept (bodies in the order of
\* Bodies); part_000 reads no body
RequestBodies ==
  {[d \in Draws |-> Bodies[k[d]]] :
     k \in {f \in [Draws -> 1..Len(Bodies)] :
              \A d \in Draws : d = NumDraws \/ f[d] <= f[d + 1]}}

WrIdle ==
  /\ wrPhase = "in"
  /\ wrVariant = IndexTs
  /\ wrPrizes = <<>>
  /\ wrRange = 0
  /\ wrRandom = 0
  /\ wrResult = 0

InitDb ==
  /\ prizes0 = prizes
  /\ participants = Registered
  /\ records = {}
  /\ decLog = {}
  /\ nextPid = Cardinality(Registered) + 1
  /\ connOwner = [c \in Conns |-> 0]
  /\ tx = [c \in Conns |-> "none"]
  /\ snap = [c \in Conns |-> NoSnap]
  /\ txw = [c \in Conns |-> NoWrites]
  /\ lockedBy = [p \in PrizeIds |-> 0]

InitDraws ==
  /\ pc = [d \in Draws |-> "getConnection"]
  /\ conn = [d \in Draws |-> 0]
  /\ participantId = [d \in Draws |-> 0]
  /\ selectedPrize = [d \in Draws |-> 0]
  /\ resp = [d \in Draws |-> "none"]
  /\ sent = [d \in Draws |-> 0]
  /\ released = [d \in Draws |-> 0]
  /\ threw = [d \in Draws |-> FALSE]
  /\ commits = {}

Init ==
  /\ variant \in Variants
  /\ prizes \in {t \in [PrizeIds -> UNION {PrizeRows(p) : p \in PrizeIds}] :
                   \A p \in PrizeIds : t[p].id = p}
  /\ participantName \in
       IF variant = IndexTs THEN RequestBodies ELSE [Draws -> {NoName}]
  /\ InitDb
  /\ InitDraws
  /\ WrIdle

(***************************************************************************)
(* POST /api/lottery/draw, one action per await of the handler.            *)
(***************************************************************************)
\* a response is sent
Respond(d, r) ==
  /\ resp' = [resp EXCEPT ![d] = r]
  /\ sent' = [sent EXCEPT ![d] = @ + 1]

\* const connection = await pool.getConnection(): waits while no connection
\* is free (waitForConnections: true, queueLimit: 0)
GetConnection(d) ==
  /\ pc[d] = "getConnection"
  /\ \E c \in Conns :
       /\ connOwner[c] = 0
       /\ connOwner' = [connOwner EXCEPT ![c] = d]
       /\ conn' = [conn EXCEPT ![d] = c]
  /\ pc' = [pc EXCEPT ![d] = "beginTransaction"]
  /\ UNCHANGED <<variant, dbVars, tx, snap, txw, lockedBy, participantName,
                 participantId, selectedPrize, resp, sent, released, threw,
                 commits, wrVars>>

\* BeginTransaction without the check of the name
BeginTransactionUnchecked(d) ==
  LET c == conn[d] IN
  /\ pc[d] = "beginTransaction"
  /\ tx[c] # "lost"
  /\ IF tx[c] = "open"
       THEN ApplyWrites(c)
       ELSE UNCHANGED <<prizes, participants, records, decLog>>
  /\ EndTx(c, "open")
  /\ pc' = [pc EXCEPT ![d] =
              IF variant = IndexTs THEN "selectParticipant" ELSE "selectPrizes"]
  /\ UNCHANGED <<variant, prizes0, nextPid, connOwner, conn, participantName,
                 participantId, selectedPrize, resp, sent, released, threw,
                 commits, wrVars>>

\* await connection.beginTransaction(), then (index.ts) the check of the name
BeginTransaction(d) ==
  LET c == conn[d] IN
  /\ pc[d] = "beginTransaction"
  /\ tx[c] # "lost"
  /\ IF tx[c] = "open"
       THEN ApplyWrites(c)
       ELSE UNCHANGED <<prizes, participants, records, decLog>>
  /\ EndTx(c, "open")
  /\ IF variant = IndexTs /\ participantName[d] = NoName
       THEN /\ Respond(d, "invalid400")
            /\ pc' = [pc EXCEPT ![d] = "finally"]
       ELSE /\ UNCHANGED <<resp, sent>>
            /\ pc' = [pc EXCEPT ![d] =
                        IF variant = IndexTs THEN "selectParticipant"
                        ELSE "selectPrizes"]
  /\ UNCHANGED <<variant, prizes0, nextPid, connOwner, conn, participantName,
                 participantId, selectedPrize, released, threw, commits,
                 wrVars>>

\* SELECT * FROM participants WHERE name = ?: the first read of the
\* transaction, which fixes its snapshot
SelectParticipant(d) ==
  LET c == conn[d]
      found == {r \in participants : r.name = participantName[d]}
  IN
  /\ pc[d] = "selectParticipant"
  /\ tx[c] = "open"
  /\ snap' = [snap EXCEPT ![c] = IF @ = NoSnap THEN prizes ELSE @]
  /\ IF found = {}
       THEN /\ pc' = [pc EXCEPT ![d] = "insertParticipant"]
            /\ UNCHANGED participantId
       ELSE /\ \E r \in found :
                 participantId' = [participantId EXCEPT ![d] = r.id]
            /\ pc' = [pc EXCEPT ![d] = "selectPrizes"]
  /\ UNCHANGED <<variant, dbVars, connOwner, tx, txw, lockedBy, conn,
                 participantName, selectedPrize, resp, sent, released, threw,
                 commits, wrVars>>

\* INSERT INTO participants (name) VALUES (?); participantId = insertId
InsertParticipant(d) ==
  LET c == conn[d] IN
  /\ pc[d] = "insertParticipant"
  /\ tx[c] = "open"
  /\ txw' = [txw EXCEPT ![c].participants =
               @ \cup {[id |-> nextPid, name |-> participantName[d], draw |-> d]}]
  /\ nextPid' = nextPid + 1
  /\ participantId' = [participantId EXCEPT ![d] = nextPid]
  /\ pc' = [pc EXCEPT ![d] = "selectPrizes"]
  /\ UNCHANGED <<variant, prizes, prizes0, participants, records, decLog,
                 connOwner, tx, snap, lockedBy, conn, participantName,
                 selectedPrize, resp, sent, released, threw, commits, wrVars>>

\* the rows the eligible read of the variant returns on connection c
ReadEligible(c) ==
  IF variant = IndexTs THEN Eligible(snap[c]) ELSE Eligible(prizes)

\* SELECT * FROM prizes WHERE remaining_quantity > 0 [FOR UPDATE], then the
\* empty check and weightedRandom
SelectPrizes(d) ==
  LET c == conn[d]
      list == ReadEligible(c)
  IN
  /\ pc[d] = "selectPrizes"
  /\ tx[c] = "open"
  /\ IF variant = Part000
       THEN /\ \A p \in EligibleIds(prizes) : lockedBy[p] \in {0, c}
            /\ lockedBy' = [p \in PrizeIds |->
                 IF p \in EligibleIds(prizes) THEN c ELSE lockedBy[p]]
       ELSE UNCHANGED lockedBy
  /\ IF list = <<>>
       THEN /\ pc' = [pc EXCEPT ![d] = "rollbackEmpty"]
            /\ UNCHANGED selectedPrize
       ELSE /\ \E won \in {weightedRandom(variant, list, random) :
                             random \in RandomValues(RandomRange(variant, list))} :
                 selectedPrize' = [selectedPrize EXCEPT ![d] = won.id]
            /\ pc' = [pc EXCEPT ![d] =
                        IF variant = IndexTs THEN "insertRecord" ELSE "update"]
  /\ UNCHANGED <<variant, dbVars, connOwner, tx, snap, txw, conn,
                 participantName, participantId, resp, sent, released, threw,
                 commits, wrVars>>

\* RollbackEmpty with connection.commit() in the place of the rollback
RollbackEmptyCommits(d) ==
  LET c == conn[d] IN
  /\ pc[d] = "rollbackEmpty"
  /\ tx[c] # "lost"
  /\ ApplyWrites(c)
  /\ EndTx(c, "none")
  /\ Respond(d, "noPrizes400")
  /\ pc' = [pc EXCEPT ![d] = "finally"]
  /\ UNCHANGED <<variant, prizes0, nextPid, connOwner, conn, participantName,
                 participantId, selectedPrize, released, threw, commits,
                 wrVars>>

\* if (prizes.length === 0) { await connection.rollback(); return 400 }
RollbackEmpty(d) ==
  LET c == conn[d] IN
  /\ pc[d] = "rollbackEmpty"
  /\ tx[c] # "lost"
  /\ EndTx(c, "none")
  /\ Respond(d, "noPrizes400")
  /\ pc' = [pc EXCEPT ![d] = "finally"]
  /\ UNCHANGED <<variant, dbVars, connOwner, conn, participantName,
                 participantId, selectedPrize, released, threw, commits,
                 wrVars>>

\* INSERT INTO lottery_records (participant_id, prize_id) VALUES (?, ?)
InsertRecord(d) ==
  LET c == conn[d] IN
  /\ pc[d] = "insertRecord"
  /\ tx[c] = "open"
  /\ txw' = [txw EXCEPT ![c].records =
               @ \cup {[participant_id |-> participantId[d],
                        prize_id |-> selectedPrize[d], draw |-> d]}]
  /\ pc' = [pc EXCEPT ![d] = "update"]
  /\ UNCHANGED <<variant, dbVars, connOwner, tx, snap, lockedBy, conn,
                 participantName, participantId, selectedPrize, resp, sent,
                 released, threw, commits, wrVars>>

\* UPDATE prizes SET remaining_quantity = remaining_quantity - 1
\*   WHERE id = ? AND remaining_quantity > 0: waits for the row lock
UpdatePrize(d) ==
  LET c == conn[d]
      p == selectedPrize[d]
  IN
  /\ pc[d] = "update"
  /\ tx[c] = "open"
  /\ lockedBy[p] \in {0, c}
  /\ lockedBy' = [lockedBy EXCEPT ![p] = c]
  /\ txw' = [txw EXCEPT ![c] = DecrementIfPositive(c, d, p)]
  /\ pc' = [pc EXCEPT ![d] = "commit"]
  /\ UNCHANGED <<variant, dbVars, connOwner, tx, snap, conn, participantName,
                 participantId, selectedPrize, resp, sent, released, threw,
                 commits, wrVars>>

\* Commit with the response sent before the commit is awaited: the
\* transaction is still open when the handler goes on
CommitNotAwaited(d) ==
  /\ pc[d] = "commit"
  /\ tx[conn[d]] = "open"
  /\ Respond(d, "ok200")
  /\ pc' = [pc EXCEPT ![d] = "finally"]
  /\ UNCHANGED <<variant, dbVars, connVars, conn, participantName,
                 participantId, selectedPrize, released, threw, commits,
                 wrVars>>

\* await connection.commit(); res.json({...})
Commit(d) ==
  LET c == conn[d] IN
  /\ pc[d] = "commit"
  /\ tx[c] = "open"
  /\ ApplyWrites(c)
  /\ EndTx(c, "none")
  /\ commits' = commits \cup {d}
  /\ Respond(d, "ok200")
  /\ pc' = [pc EXCEPT ![d] = "finally"]
  /\ UNCHANGED <<variant, prizes0, nextPid, connOwner, conn, participantName,
                 participantId, selectedPrize, released, threw, wrVars>>

\* the awaits of the try block that can end with a statement error
StatementPcs ==
  {"beginTransaction", "selectParticipant", "insertParticipant",
   "selectPrizes", "insertRecord", "update", "commit"}

\* a store call of the try block rejects with a statement error: control
\* goes to the catch block
StoreError(d) ==
  /\ pc[d] \in StatementPcs
  /\ tx[conn[d]] # "lost"
  /\ pc' = [pc EXCEPT ![d] = "catch"]
  /\ UNCHANGED <<variant, dbVars, connVars, conn, participantName,
                 participantId, selectedPrize, resp, sent, released, threw,
                 commits, wrVars>>

\* the rollback of the empty case rejects (the connection is lost, the server
\* discards the transaction): control goes to the catch block
RollbackEmptyFail(d) ==
  /\ pc[d] = "rollbackEmpty"
  /\ EndTx(conn[d], "lost")
  /\ pc' = [pc EXCEPT ![d] = "catch"]
  /\ UNCHANGED <<variant, dbVars, connOwner, conn, participantName,
                 participantId, selectedPrize, resp, sent, released, threw,
                 commits, wrVars>>

\* CatchRollback without the rollback: the 500 is sent, the transaction stays
CatchWithoutRollback(d) ==
  /\ pc[d] = "catch"
  /\ tx[conn[d]] # "lost"
  /\ Respond(d, "failed500")
  /\ pc' = [pc EXCEPT ![d] = "finally"]
  /\ UNCHANGED <<variant, dbVars, connVars, conn, participantName,
                 participantId, selectedPrize, released, threw, commits,
                 wrVars>>

\* catch (error) { await connection.rollback(); res.status(500).json(...) }
CatchRollback(d) ==
  LET c == conn[d] IN
  /\ pc[d] = "catch"
  /\ tx[c] # "lost"
  /\ EndTx(c, "none")
  /\ Respond(d, "failed500")
  /\ pc' = [pc EXCEPT ![d] = "finally"]
  /\ UNCHANGED <<variant, dbVars, connOwner, conn, participantName,
                 participantId, selectedPrize, released, threw, commits,
                 wrVars>>

\* CatchRollbackFail with the release at the end of the handler instead of in
\* a finally block: the rejected rollback skips it
CatchRollbackFailSkipsRelease(d) ==
  /\ pc[d] = "catch"
  /\ EndTx(conn[d], "lost")
  /\ threw' = [threw EXCEPT ![d] = TRUE]
  /\ pc' = [pc EXCEPT ![d] = "done"]
  /\ UNCHANGED <<variant, dbVars, connOwner, conn, participantName,
                 participantId, selectedPrize, resp, sent, released, commits,
                 wrVars>>

\* the rollback of the catch block rejects: the error leaves the handler,
\* through the finally block, and no response is sent
CatchRollbackFail(d) ==
  /\ pc[d] = "catch"
  /\ EndTx(conn[d], "lost")
  /\ threw' = [threw EXCEPT ![d] = TRUE]
  /\ pc' = [pc EXCEPT ![d] = "finally"]
  /\ UNCHANGED <<variant, dbVars, connOwner, conn, participantName,
                 participantId, selectedPrize, resp, sent, released, commits,
                 wrVars>>

\* finally { connection.release() }: the connection goes back to the pool
\* as it is (the pool replaces a lost connection by a new one) and the
\* handler's locals are gone
Release(d) ==
  LET c == conn[d] IN
  /\ pc[d] = "finally"
  /\ connOwner' = [connOwner EXCEPT ![c] = 0]
  /\ tx' = [tx EXCEPT ![c] = IF @ = "lost" THEN "none" ELSE @]
  /\ released' = [released EXCEPT ![d] = @ + 1]
  /\ conn' = [conn EXCEPT ![d] = 0]
  /\ participantId' = [participantId EXCEPT ![d] = 0]
  /\ selectedPrize' = [selectedPrize EXCEPT ![d] = 0]
  /\ pc' = [pc EXCEPT ![d] = "done"]
  /\ UNCHANGED <<variant, dbVars, snap, txw, lockedBy, participantName,
                 resp, sent, threw, commits, wrVars>>

Next ==
  \E d \in Draws :
    \/ GetConnection(d)
    \/ BeginTransaction(d)
    \/ SelectParticipant(d)
    \/ InsertParticipant(d)
    \/ SelectPrizes(d)
    \/ RollbackEmpty(d)
    \/ InsertRecord(d)
    \/ UpdatePrize(d)
    \/ Commit(d)
    \/ StoreError(d)
    \/ RollbackEmptyFail(d)
    \/ CatchRollback(d)
    \/ CatchRollbackFail(d)
    \/ Release(d)

Spec == Init /\ [][Next]_vars

(***************************************************************************)
(* weightedRandom on its own: every list of eligible prizes up to MaxLen,  *)
(* in either variant, and every value of the grid.                         *)
(***************************************************************************)
\* the weights tried: percentages for index.ts, stock sizes for part_000
WrWeights(v) == IF v = IndexTs THEN {0, 10, 50, 90} ELSE 0..MaxWeight

WrPrize(v, i, w) ==
  [id |-> i, remaining_quantity |-> 1,
   total_quantity |-> IF v = IndexTs THEN 1 ELSE w,
   probability |-> IF v = IndexTs THEN w ELSE 0]

WrLists(v) ==
  UNION {{[i \in 1..n |-> WrPrize(v, i, ws[i])] : ws \in [1..n -> WrWeights(v)]} :
           n \in 1..MaxLen}

InitWR ==
  /\ variant = IndexTs
  /\ prizes = [p \in PrizeIds |->
                 [id |-> p, total_quantity |-> MaxQty, remaining_quantity |-> 0,
                  probability |-> ProbabilityOf(p)]]
  /\ participantName = [d \in Draws |-> NoName]
  /\ InitDb
  /\ InitDraws
  /\ wrPhase = "in"
  /\ wrVariant \in Variants
  /\ wrPrizes \in WrLists(wrVariant)
  /\ wrRange = 0
  /\ wrRandom = 0
  /\ wrResult = 0

\* totalWeight (part_000) or 100 (index.ts), and Math.random() * range
WrDraw ==
  /\ wrPhase = "in"
  /\ wrRange' = RandomRange(wrVariant, wrPrizes)
  /\ wrRandom' \in RandomValues(wrRange')
  /\ wrPhase' = "drawn"
  /\ UNCHANGED <<variant, dbVars, connVars, drawVars, wrVariant, wrPrizes,
                 wrResult>>

\* the walk over the list
WrWalk ==
  /\ wrPhase = "drawn"
  /\ wrResult' = weightedRandom(wrVariant, wrPrizes, wrRandom)
  /\ wrPhase' = "out"
  /\ UNCHANGED <<variant, dbVars, connVars, drawVars, wrVariant, wrPrizes,
                 wrRange, wrRandom>>

NextWR == WrDraw \/ WrWalk

SpecWR == InitWR /\ [][NextWR]_vars

(***************************************************************************)
(* Vocabulary of the properties.                                           *)
(***************************************************************************)
RECURSIVE SumOver(_, _)
SumOver(f, S) ==
  IF S = {} THEN 0
  ELSE LET x == CHOOSE y \in S : TRUE IN f[x] + SumOver(f, S \ {x})

\* sum over the prizes of total_quantity - remaining_quantity
Drawn(table) ==
  SumOver([p \in PrizeIds |->
             table[p].total_quantity - table[p].remaining_quantity], PrizeIds)

Succeeded == {d \in Draws : resp[d] = "ok200"}
AllDone == \A d \in Draws : pc[d] = "done"

RecordsOf(d) == {r \in records : r.draw = d}

\* nothing draw d wrote is in the committed store
NothingPersisted(d) ==
  /\ \A r \in participants : r.draw # d
  /\ \A r \in records : r.draw # d
  /\ \A x \in decLog : x.draw # d

(***************************************************************************)
(* Properties.                                                             *)
(***************************************************************************)
\* C1: in every reachable state every prize has
\* 0 <= remaining_quantity <= total_quantity, whatever the interleaving of the
\* draws and whichever variant runs.
C1_StockInRange ==
  \A p \in PrizeIds :
    /\ 0 <= prizes[p].remaining_quantity
    /\ prizes[p].remaining_quantity <= prizes[p].total_quantity

\* two committed draws chose the same prize, which had one unit and has none
C1_Witness ==
  \E r1, r2 \in records :
    /\ r1.draw # r2.draw
    /\ r1.prize_id = r2.prize_id
    /\ prizes0[r1.prize_id].remaining_quantity = 1
    /\ prizes[r1.prize_id].remaining_quantity = 0

\* C2: the sum over the prizes of total_quantity - remaining_quantity has grown
\* by exactly the number of draws answered 200, and no record is in the store
\* without the decrement of its draw.
C2_DecrementPerSuccess ==
  /\ Drawn(prizes) - Drawn(prizes0) = Cardinality(Succeeded)
  /\ \A r \in records : [prize |-> r.prize_id, draw |-> r.draw] \in decLog

\* C3: a draw answered 200 has exactly one record in the store, referencing
\* the prize it selected; a draw answered 400 or 500 has none; so the number
\* of records is the number of draws answered 200.
C3_RecordPerSuccess ==
  /\ \A d \in Draws :
       Cardinality(RecordsOf(d)) = IF resp[d] = "ok200" THEN 1 ELSE 0
  /\ \A d \in Draws : \A r \in RecordsOf(d) :
       pc[d] = "finally" => r.prize_id = selectedPrize[d]
  /\ Cardinality(records) = Cardinality(Succeeded)

\* C4: whenever a draw commits and reports prize p as won, the committed
\* remaining_quantity of p was > 0 just before the commit of that draw.
C4_WonPrizeHadStock ==
  [][\A d \in Draws :
       (resp[d] # "ok200" /\ resp'[d] = "ok200")
         => prizes[selectedPrize[d]].remaining_quantity > 0]_vars

\* C5: when all draws run against a single prize with k units (fewer than the
\* draws) and each of them ends with a 200 or the no-prizes 400, exactly k are
\* answered 200, the others the no-prizes 400, and the stock ends at 0.
C5_ExactlyStockManyWin ==
  \A p \in PrizeIds :
    LET k == prizes0[p].remaining_quantity IN
    ( /\ AllDone
      /\ k > 0 /\ k < NumDraws
      /\ \A q \in PrizeIds \ {p} : prizes0[q].remaining_quantity = 0
      /\ \A d \in Draws : resp[d] \in {"ok200", "noPrizes400"} )
    => /\ Cardinality(Succeeded) = k
       /\ Cardinality({d \in Draws : resp[d] = "noPrizes400"}) = NumDraws - k
       /\ prizes[p].remaining_quantity = 0

C7_FailedDrawLeavesNothing ==
  \A d \in Draws :
    (pc[d] = "catch" \/ resp[d] = "failed500" \/ threw[d])
      => NothingPersisted(d)

\* a draw failed after it had inserted its participant and selected a prize,
\* was rolled back and answered 500
C7_Witness ==
  \E d \in Draws :
    /\ pc[d] = "finally"
    /\ resp[d] = "failed500"
    /\ selectedPrize[d] # 0
    /\ participantId[d] # 0
    /\ \A r \in participants : r.id # participantId[d]

\* C8: a 200 is sent only by a draw whose commit resolved, and when a 200 or a
\* 500 has been sent the transaction of the draw is over: committed for the
\* 200, rolled back (no write, no lock left) for the 500.
C8_ResponseAfterResolution ==
  \A d \in Draws :
    /\ resp[d] = "ok200" <=> d \in commits
    /\ (pc[d] = "finally" /\ resp[d] \in {"ok200", "failed500"})
         => /\ tx[conn[d]] = "none"
            /\ txw[conn[d]] = NoWrites
            /\ \A p \in PrizeIds : lockedBy[p] # conn[d]

\* one draw has been answered 200 and another 500
C8_Witness ==
  \E d1, d2 \in Draws :
    /\ resp[d1] = "ok200"
    /\ resp[d2] = "failed500" /\ pc[d2] = "finally"

\* C9: a connection is held by one draw at a time, from getConnection to the
\* finally block, and a finished draw has released its connection exactly
\* once, whatever its exit path.
C9_ReleasedOnce ==
  /\ \A d \in Draws :
       /\ released[d] = IF pc[d] = "done" THEN 1 ELSE 0
       /\ conn[d] # 0 <=> pc[d] \notin {"getConnection", "done"}
       /\ conn[d] # 0 => connOwner[conn[d]] = d
  /\ \A c \in Conns : connOwner[c] # 0 => conn[connOwner[c]] = c

\* three finished draws, by three exit paths: the 200, the no-prizes 400 and
\* the rejected rollback of the catch block
C9_Witness ==
  \E d1, d2, d3 \in Draws :
    /\ pc[d1] = "done" /\ resp[d1] = "ok200"
    /\ pc[d2] = "done" /\ resp[d2] = "noPrizes400"
    /\ pc[d3] = "done" /\ threw[d3]

\* the other two exit paths: the missing name and the 500
C9_WitnessOtherPaths ==
  \E d1, d2 \in Draws :
    /\ pc[d1] = "done" /\ resp[d1] = "invalid400"
    /\ pc[d2] = "done" /\ resp[d2] = "failed500"

\* C10: the random value of weightedRandom lies in [0, W), W the sum of the
\* weights of the prizes passed to it, for every list with W > 0.
C10_RandomBelowTotalWeight ==
  (wrPhase # "in" /\ SumWeight(wrVariant, wrPrizes) > 0)
    => /\ wrRange = SumWeight(wrVariant, wrPrizes)
       /\ 0 <= wrRandom
       /\ wrRandom < RandomScale * SumWeight(wrVariant, wrPrizes)

\* the weight of the first i prizes of the list
CumWeight(v, list, i) == SumWeight(v, SubSeq(list, 1, i))

\* the positions at which random (times RandomScale) minus the weight so far,
\* the prize of the position included, is <= 0
Triggers(v, list, random) ==
  {i \in 1..Len(list) : random - RandomScale * CumWeight(v, list, i) <= 0}

\* the spec's example: [{id: 1, w: 10}, {id: 2, w: 90}]
ExampleList == <<WrPrize(IndexTs, 1, 10), WrPrize(IndexTs, 2, 90)>>

\* C11: for every non-empty list and every random value weightedRandom
\* returns a prize of the list: the one at the first position where the random
\* value minus the cumulative weight is <= 0, the last one when there is no
\* such position; for the example list and r = 5 it returns prize 1.
C11_FirstTriggerOrLast ==
  wrPhase = "out" =>
    LET t == Triggers(wrVariant, wrPrizes, wrRandom) IN
    /\ \E i \in 1..Len(wrPrizes) : wrResult = wrPrizes[i]
    /\ t # {} => wrResult = wrPrizes[CHOOSE i \in t : \A j \in t : i <= j]
    /\ t = {} => wrResult = wrPrizes[Len(wrPrizes)]
    /\ (wrVariant = IndexTs /\ wrPrizes = ExampleList
          /\ wrRandom = 5 * RandomScale) => wrResult.id = 1

\* the walk ran out of a list of several prizes and returned the last one
C11_Witness ==
  /\ wrPhase = "out"
  /\ Len(wrPrizes) > 1
  /\ Triggers(wrVariant, wrPrizes, wrRandom) = {}
  /\ wrResult = wrPrizes[Len(wrPrizes)]

\* the example of the spec has run
C11_WitnessExample ==
  /\ wrPhase = "out"
  /\ wrVariant = IndexTs /\ wrPrizes = ExampleList
  /\ wrRandom = 5 * RandomScale
  /\ wrResult.id = 1

\* the values of the grid for which weightedRandom returns the prize at
\* position i of the list
Share(v, list, i) ==
  {random \in RandomValues(RandomRange(v, list)) :
     weightedRandom(v, list, random) = list[i]}

\* C12: for every list with total weight W > 0 the part of the random range
\* that maps to a prize is weight / W of the range: of the grid values of the
\* range, the fraction weight / W maps to the prize, up to the one value at
\* each end of its interval.
C12_ShareIsWeightOverTotal ==
  (wrPhase = "out" /\ SumWeight(wrVariant, wrPrizes) > 0) =>
    LET W == SumWeight(wrVariant, wrPrizes)
        all == Cardinality(RandomValues(RandomRange(wrVariant, wrPrizes)))
    IN
    \A i \in 1..Len(wrPrizes) :
      LET n == Cardinality(Share(wrVariant, wrPrizes, i))
          w == Weight(wrVariant, wrPrizes[i])
      IN  /\ n * W - w * all <= W
          /\ w * all - n * W <= W

\* C13: in index.ts a draw without a participant name is answered 400 once
\* its transaction has begun (500 or nothing if beginTransaction rejected),
\* it goes no further in the handler, and nothing of it is ever in the store:
\* no participant, no record, no decrement.
C13_MissingNameNoMutation ==
  \A d \in Draws :
    (variant = IndexTs /\ participantName[d] = NoName) =>
      /\ pc[d] \in {"getConnection", "beginTransaction", "catch", "finally",
                    "done"}
      /\ resp[d] \in {"none", "invalid400", "failed500"}
      /\ (resp[d] = "none" /\ pc[d] \in {"finally", "done"}) => threw[d]
      /\ NothingPersisted(d)
      /\ d \notin commits
      /\ \A c \in Conns : \A r \in txw[c].participants : r.draw # d

\* a draw without a name was answered 400 and is over, the transaction it
\* left open on its connection is gone, and a draw has committed
C13_Witness ==
  \E d \in Draws :
    /\ variant = IndexTs
    /\ participantName[d] = NoName
    /\ pc[d] = "done"
    /\ resp[d] = "invalid400"
    /\ commits # {}
    /\ \A c \in Conns : tx[c] # "open"

\* every connection of the pool is held by a draw
Saturated == \A c \in Conns : connOwner[c] # 0

\* C14: a draw that asks for a connection while the pool is saturated is
\* failed, not left waiting in the queue of the pool.
C14_SaturatedDrawNotQueued ==
  \A d \in Draws : ~(pc[d] = "getConnection" /\ Saturated)

\* the positions between a draw's eligible read (which returned prizes) and
\* the end of its transaction
AfterEligibleRead == {"insertRecord", "update", "commit"}

\* C15: from its eligible read to its commit or rollback a draw holds the
\* exclusive lock of the rows it read as eligible (the prize it selected among
\* them): no other draw reads them as eligible or decrements them meanwhile,
\* so no two draws are between read and commit on the same eligible rows.
C15_EligibleReadLocks ==
  /\ \A d \in Draws :
       pc[d] \in AfterEligibleRead =>
         /\ lockedBy[selectedPrize[d]] = conn[d]
         /\ \A p \in EligibleIds(prizes) : lockedBy[p] = conn[d]
  /\ \A d1, d2 \in Draws :
       (d1 # d2 /\ pc[d1] \in AfterEligibleRead /\ pc[d2] \in AfterEligibleRead)
         => selectedPrize[d1] # selectedPrize[d2]

\* the UPDATE of draw d changed no row: d waits for its commit with no
\* decrement among the writes of its transaction
NoOpUpdate(d) ==
  /\ pc[d] = "commit"
  /\ \A x \in txw[conn[d]].decs : x.draw # d

\* C16: a draw whose conditional decrement changed no row is aborted: it is
\* not answered 200 and its record is not committed.
C16_NoOpUpdateAborts ==
  [][\A d \in Draws :
       NoOpUpdate(d) =>
         /\ resp'[d] # "ok200"
         /\ \A r \in records' : r.draw # d]_vars

\* C17: the committed draws of one name reference one participant id, and the
\* participants table never holds two rows of the same name.
C17_OneParticipantPerName ==
  /\ \A r1, r2 \in participants : r1.name = r2.name => r1.id = r2.id
  /\ \A r1, r2 \in records :
       participantName[r1.draw] = participantName[r2.draw]
         => r1.participant_id = r2.participant_id

\* C18: when a prize of the list has a positive weight, weightedRandom never
\* returns a prize of weight 0, whatever its position and the random value.
C18_ZeroWeightNeverSelected ==
  (wrPhase = "out" /\ SumWeight(wrVariant, wrPrizes) > 0)
    => Weight(wrVariant, wrResult) > 0

\* C19: a connection that is back in the pool has no open transaction (the
\* one its last draw began was committed or rolled back), so the draw that
\* obtains it next inherits none.
C19_ReleasedConnectionResolved ==
  /\ \A c \in Conns : connOwner[c] = 0 => tx[c] # "open"
  /\ \A d \in Draws : pc[d] = "beginTransaction" => tx[conn[d]] # "open"

\* C20: a draw that obtained a connection and is over has sent exactly one
\* response (200, 400 or 500), whatever the store call that failed, the
\* rollback of the catch block included.
C20_FinishedDrawAnsweredOnce ==
  \A d \in Draws :
    (pc[d] = "done" /\ released[d] > 0) =>
      /\ sent[d] = 1
      /\ resp[d] \in {"ok200", "invalid400", "noPrizes400", "failed500"}

====
